---- MODULE Spec2Model ----
(***************************************************************************)
(* Model of pants' ConsolidateClasspath task                               *)
(* (src/python/pants/backend/jvm/tasks/consolidate_classpath.py).          *)
(*                                                                         *)
(* The task clones the runtime_classpath product into the                  *)
(* consolidated_classpath product, finds the targets that have a loose     *)
(* directory on their classpath, and for each of them replaces every       *)
(* directory entry by a jar <results_dir>/output-<index>.jar, writing the  *)
(* jar only when the versioned target is invalid.                          *)
(*                                                                         *)
(* The classpath products container, the invalidation machinery and the    *)
(* jar writer live outside the task's file; they are modelled by their     *)
(* contract: a per-target ordered sequence of (conf, path) entries with    *)
(* remove-by-exact-match and add-at-the-end, a verdict per candidate       *)
(* target, and a jar write that either completes or raises.                *)
(***************************************************************************)
EXTENDS Integers, Sequences, FiniteSets, TLC

(* ---------------------------- bounds ----------------------------------- *)

\* Total number of classpath entries in the input manifest.
MaxEntries == 3

\* Length of the list returned by context.targets().
MaxTargets == 3

\* Number of times execute() is run in one context.
MaxRuns == 2

(* ---------------------------- universe --------------------------------- *)

Targets == {"a", "b", "c"}

Confs == {"default", "shaded"}

\* Paths that are directories on disk.
LooseDirs == {"/build/classes"}

\* Paths of jars that upstream tasks put on the classpath.
UpstreamJars == {"/build/lib.jar"}

InputPaths == LooseDirs \cup UpstreamJars

\* A classpath tuple (conf, entry); entry.path is kept as the field path.
InputEntries == [conf : Confs, path : InputPaths]

Range(s) == {s[i] : i \in 1..Len(s)}

SeqsUpTo(S, n) == UNION {[1..k -> S] : k \in 0..n}

NoDuplicates(s) == \A i, j \in 1..Len(s) : s[i] = s[j] => i = j

RECURSIVE SetSum(_, _)
SetSum(f, S) ==
  IF S = {} THEN 0
  ELSE LET x == CHOOSE y \in S : TRUE IN Len(f[x]) + SetSum(f, S \ {x})

\* Manifests the upstream stage can hand over: per target an ordered
\* sequence of distinct (conf, path) tuples.
InputManifests ==
  {m \in [Targets -> {s \in SeqsUpTo(InputEntries, MaxEntries) : NoDuplicates(s)}] :
     SetSum(m, Targets) <= MaxEntries}

(* ---------------------------- state ------------------------------------ *)

VARIABLES
  runtime_classpath,       \* product 'runtime_classpath': target -> entries
  consolidated_classpath,  \* product 'consolidated_classpath'; <<>> while absent, <<m>> once created
  consolidated_is_runtime, \* the consolidated product is the very object held as 'runtime_classpath'
  context_targets,         \* self.context.targets(...)
  pc,                      \* position of the task: idle, vts, entries, write, remove, add, done, error
  all_vts,                 \* invalidation.all_vts
  vt_pos,                  \* number of vts the outer loop has taken
  entries,                 \* the list fetched at line 55 for the current vt
  index,                   \* enumerate() index of the inner loop (0-based)
  jarpath,                 \* jarpath of the current directory entry
  runs,                    \* number of execute() calls started
  start_classpath,         \* history: the manifest at the start of the current run
  written,                 \* history: jar writes completed in the current run
  removed,                 \* history: remove_for_target calls of the current run, each with
                           \*          whether its tuple was present when it was issued
  added,                   \* history: add_for_target calls of the current run
  finished,                \* history: (target, entries) of every vt whose inner loop completed
  failed                   \* history: <<>> or <<the write that raised>>

vars == <<runtime_classpath, consolidated_classpath, consolidated_is_runtime, context_targets, pc, all_vts, vt_pos,
          entries, index, jarpath, runs, start_classpath, written, removed, added,
          finished, failed>>

history == <<start_classpath, written, removed, added, finished, failed>>

(* ---------------------------- helpers ---------------------------------- *)

\* ClasspathUtil.is_dir(path)
is_dir(path) == path \in LooseDirs

\* vt.results_dir: one stable directory per target
results_dir(target) == "/out/" \o target

\* variant of line 58 that leaves the index out of the file name
JarPath_without_index(dir, i) == dir \o "/" \o "output" \o ".jar"

\* os.path.join(vt.results_dir, 'output-{}.jar'.format(index))
JarPath(dir, i) == dir \o "/" \o "output-" \o ToString(i) \o ".jar"

\* variant of line 42 that hands over the runtime_classpath object itself
init_func_shares == FALSE

\* line 42: the init_func of the consolidated product is runtime_classpath.copy,
\* which makes a new object
init_func_copies == TRUE

\* runtime_classpath.copy
copy(classpath) == [t \in DOMAIN classpath |-> classpath[t]]

\* variant of get_data that runs init_func on every call
get_data_always_init(product, init) == init

\* self.context.products.get_data(name, init_func): the product is created by
\* init_func only when it does not exist yet
get_data(product, init) == IF product = <<>> THEN init ELSE product[1]

\* classpath_products.get_internal_classpath_entries_for_targets([target])
get_internal_classpath_entries_for_targets(classpath, target) == classpath[target]

\* classpath_products.remove_for_target(target, [(conf, path)])
remove_for_target(classpath, target, e) ==
  [classpath EXCEPT ![target] = SelectSeq(@, LAMBDA x : x # e)]

\* variant of add_for_target for a container that keeps one copy of a tuple
add_for_target_unique(classpath, target, e) ==
  [classpath EXCEPT ![target] = IF e \in Range(@) THEN @ ELSE Append(@, e)]

\* classpath_products.add_for_target(target, [(conf, path)])
add_for_target(classpath, target, e) ==
  [classpath EXCEPT ![target] = Append(@, e)]

\* the inner loop of _find_consolidate_classpath_candidates (lines 75-78)
HasDirectory(es) == \E i \in 1..Len(es) : is_dir(es[i].path)

\* variant of the candidate search that looks at the first entry only
candidates_first_entry_only(classpath, targets) ==
  SelectSeq(targets,
            LAMBDA t : /\ Len(classpath[t]) > 0
                       /\ is_dir(classpath[t][1].path))

\* variant of the candidate search that looks at the entries of conf 'default' only
candidates_default_conf_only(classpath, targets) ==
  SelectSeq(targets,
            LAMBDA t : \E i \in 1..Len(classpath[t]) :
                         /\ classpath[t][i].conf = "default"
                         /\ is_dir(classpath[t][i].path))

\* _find_consolidate_classpath_candidates (lines 69-80)
_find_consolidate_classpath_candidates(classpath, targets) ==
  SelectSeq(targets,
            LAMBDA t : HasDirectory(get_internal_classpath_entries_for_targets(classpath, t)))

\* variant of line 61 that never regenerates the jar
NeedsWrite_never(vt) == FALSE

\* variant of line 61 that regenerates the jar for every vt
NeedsWrite_always(vt) == TRUE

\* line 61: the jar is regenerated only for invalid vts
NeedsWrite(vt) == ~vt.valid

\* self.invalidated(targets=...): the possible contents of invalidation.all_vts
Invalidated(targets) ==
  {[i \in 1..Len(targets) |->
      [target |-> targets[i], valid |-> v[targets[i]], results_dir |-> results_dir(targets[i])]] :
   v \in [Range(targets) -> BOOLEAN]}

Classpath == consolidated_classpath[1]

CurrentVT == all_vts[vt_pos]

\* What the 'runtime_classpath' product holds after the consolidated product
\* has been mutated to new: the same when both names denote one object.
WriteThrough(new) == IF consolidated_is_runtime THEN new[1] ELSE runtime_classpath

CurrentEntry == entries[index + 1]

(* ---------------------------- behaviour -------------------------------- *)

Init ==
  /\ runtime_classpath \in InputManifests
  /\ context_targets \in SeqsUpTo(Targets, MaxTargets)
  /\ consolidated_classpath = <<>>
  /\ consolidated_is_runtime = FALSE
  /\ pc = "idle"
  /\ all_vts = <<>>
  /\ vt_pos = 0
  /\ entries = <<>>
  /\ index = 0
  /\ jarpath = ""
  /\ runs = 0
  /\ start_classpath = runtime_classpath
  /\ written = {}
  /\ removed = {}
  /\ added = {}
  /\ finished = <<>>
  /\ failed = <<>>

\* variant of execute that hands every context target to self.invalidated
Execute_invalidates_all_targets ==
  /\ pc \in {"idle", "done"}
  /\ runs < MaxRuns
  /\ LET product == get_data(consolidated_classpath, copy(runtime_classpath))
     IN /\ consolidated_classpath' = <<product>>
        /\ consolidated_is_runtime' = IF consolidated_classpath = <<>>
                                      THEN ~init_func_copies
                                      ELSE consolidated_is_runtime
        /\ all_vts' \in Invalidated(context_targets)
        /\ start_classpath' = product
  /\ vt_pos' = 0
  /\ entries' = <<>>
  /\ index' = 0
  /\ jarpath' = ""
  /\ runs' = runs + 1
  /\ written' = {}
  /\ removed' = {}
  /\ added' = {}
  /\ finished' = <<>>
  /\ failed' = <<>>
  /\ pc' = "vts"
  /\ UNCHANGED <<runtime_classpath, context_targets>>

\* execute, lines 38-48, up to the entry of the with block at line 52
Execute ==
  /\ pc \in {"idle", "done"}
  /\ runs < MaxRuns
  /\ LET product == get_data(consolidated_classpath, copy(runtime_classpath))
         targets_to_consolidate ==
           _find_consolidate_classpath_candidates(product, context_targets)
     IN /\ consolidated_classpath' = <<product>>
        /\ consolidated_is_runtime' = IF consolidated_classpath = <<>>
                                      THEN ~init_func_copies
                                      ELSE consolidated_is_runtime
        /\ all_vts' \in Invalidated(targets_to_consolidate)
        /\ start_classpath' = product
  /\ vt_pos' = 0
  /\ entries' = <<>>
  /\ index' = 0
  /\ jarpath' = ""
  /\ runs' = runs + 1
  /\ written' = {}
  /\ removed' = {}
  /\ added' = {}
  /\ finished' = <<>>
  /\ failed' = <<>>
  /\ pc' = "vts"
  /\ UNCHANGED <<runtime_classpath, context_targets>>

\* variant of lines 53-55 that reads the entries as they were before the loop
NextVT_stale_entries ==
  /\ pc = "vts"
  /\ vt_pos < Len(all_vts)
  /\ vt_pos' = vt_pos + 1
  /\ entries' = get_internal_classpath_entries_for_targets(start_classpath,
                                                         all_vts[vt_pos + 1].target)
  /\ index' = 0
  /\ pc' = "entries"
  /\ UNCHANGED <<consolidated_is_runtime, runtime_classpath, consolidated_classpath,
                 context_targets, all_vts, jarpath,
                 runs, history>>

\* line 53 and line 55: take the next vt and fetch its entries
NextVT ==
  /\ pc = "vts"
  /\ vt_pos < Len(all_vts)
  /\ vt_pos' = vt_pos + 1
  /\ entries' = get_internal_classpath_entries_for_targets(Classpath, all_vts[vt_pos + 1].target)
  /\ index' = 0
  /\ pc' = "entries"
  /\ UNCHANGED <<consolidated_is_runtime, runtime_classpath, consolidated_classpath,
                 context_targets, all_vts, jarpath,
                 runs, history>>

\* line 53 exhausted: the with block and execute return
Finish ==
  /\ pc = "vts"
  /\ vt_pos = Len(all_vts)
  /\ pc' = "done"
  /\ UNCHANGED <<consolidated_is_runtime, runtime_classpath, consolidated_classpath,
                 context_targets, all_vts, vt_pos,
                 entries, index, jarpath, runs, history>>

\* variant of lines 56-61 without the is_dir test of line 57
DirectoryEntry_unguarded ==
  /\ pc = "entries"
  /\ index < Len(entries)
  /\ jarpath' = JarPath(CurrentVT.results_dir, index)
  /\ pc' = IF NeedsWrite(CurrentVT) THEN "write" ELSE "remove"
  /\ UNCHANGED <<consolidated_is_runtime, runtime_classpath, consolidated_classpath,
                 context_targets, all_vts, vt_pos,
                 entries, index, runs, history>>

\* lines 56-61 for an entry that is a directory
DirectoryEntry ==
  /\ pc = "entries"
  /\ index < Len(entries)
  /\ is_dir(CurrentEntry.path)
  /\ jarpath' = JarPath(CurrentVT.results_dir, index)
  /\ pc' = IF NeedsWrite(CurrentVT) THEN "write" ELSE "remove"
  /\ UNCHANGED <<consolidated_is_runtime, runtime_classpath, consolidated_classpath,
                 context_targets, all_vts, vt_pos,
                 entries, index, runs, history>>

\* lines 56-57 for an entry that is not a directory
OtherEntry ==
  /\ pc = "entries"
  /\ index < Len(entries)
  /\ ~is_dir(CurrentEntry.path)
  /\ index' = index + 1
  /\ UNCHANGED <<consolidated_is_runtime, runtime_classpath, consolidated_classpath,
                 context_targets, pc, all_vts, vt_pos,
                 entries, jarpath, runs, history>>

\* line 56 exhausted: back to the outer loop
EndEntries ==
  /\ pc = "entries"
  /\ index = Len(entries)
  /\ finished' = Append(finished, [target |-> CurrentVT.target,
                                   entries |-> Classpath[CurrentVT.target]])
  /\ pc' = "vts"
  /\ UNCHANGED <<consolidated_is_runtime, runtime_classpath, consolidated_classpath,
                 context_targets, all_vts, vt_pos,
                 entries, index, jarpath, runs, start_classpath, written, removed, added, failed>>

\* lines 62-63, the jar is written
WriteJar ==
  /\ pc = "write"
  /\ written' = written \cup {[target |-> CurrentVT.target, index |-> index,
                               source |-> CurrentEntry.path, dest |-> jarpath]}
  /\ pc' = "remove"
  /\ UNCHANGED <<consolidated_is_runtime, runtime_classpath, consolidated_classpath,
                 context_targets, all_vts, vt_pos,
                 entries, index, jarpath, runs, start_classpath, removed, added, finished,
                 failed>>

\* variant of lines 62-63 in which the exception is swallowed and the loop goes on
WriteError_swallowed ==
  /\ pc = "write"
  /\ failed' = <<[target |-> CurrentVT.target, index |-> index,
                  conf |-> CurrentEntry.conf, path |-> CurrentEntry.path, dest |-> jarpath]>>
  /\ pc' = "remove"
  /\ UNCHANGED <<consolidated_is_runtime, runtime_classpath, consolidated_classpath,
                 context_targets, all_vts, vt_pos,
                 entries, index, jarpath, runs, start_classpath, written, removed, added,
                 finished>>

\* lines 62-63, open_jar or jar.write raises: the exception leaves execute
WriteError ==
  /\ pc = "write"
  /\ failed' = <<[target |-> CurrentVT.target, index |-> index,
                  conf |-> CurrentEntry.conf, path |-> CurrentEntry.path, dest |-> jarpath]>>
  /\ pc' = "error"
  /\ UNCHANGED <<consolidated_is_runtime, runtime_classpath, consolidated_classpath,
                 context_targets, all_vts, vt_pos,
                 entries, index, jarpath, runs, start_classpath, written, removed, added,
                 finished>>

\* line 66
Remove ==
  /\ pc = "remove"
  /\ consolidated_classpath' =
       <<remove_for_target(Classpath, CurrentVT.target,
                           [conf |-> CurrentEntry.conf, path |-> CurrentEntry.path])>>
  /\ removed' = removed \cup {[target |-> CurrentVT.target, index |-> index,
                               conf |-> CurrentEntry.conf, path |-> CurrentEntry.path,
                               present |-> [conf |-> CurrentEntry.conf,
                                            path |-> CurrentEntry.path]
                                             \in Range(Classpath[CurrentVT.target])]}
  /\ runtime_classpath' = WriteThrough(consolidated_classpath')
  /\ pc' = "add"
  /\ UNCHANGED <<consolidated_is_runtime, context_targets, all_vts, vt_pos, entries, index, jarpath,
                 runs, start_classpath, written, added, finished, failed>>

\* variant of line 67 that adds to the target of the first vt
Add_to_first_vt ==
  /\ pc = "add"
  /\ consolidated_classpath' =
       <<add_for_target(Classpath, all_vts[1].target,
                        [conf |-> CurrentEntry.conf, path |-> jarpath])>>
  /\ added' = added \cup {[target |-> all_vts[1].target, index |-> index,
                           conf |-> CurrentEntry.conf, path |-> jarpath]}
  /\ runtime_classpath' = WriteThrough(consolidated_classpath')
  /\ index' = index + 1
  /\ pc' = "entries"
  /\ UNCHANGED <<consolidated_is_runtime, context_targets, all_vts, vt_pos, entries, jarpath,
                 runs, start_classpath, written, removed, finished, failed>>

\* line 67
Add ==
  /\ pc = "add"
  /\ consolidated_classpath' =
       <<add_for_target(Classpath, CurrentVT.target,
                        [conf |-> CurrentEntry.conf, path |-> jarpath])>>
  /\ added' = added \cup {[target |-> CurrentVT.target, index |-> index,
                           conf |-> CurrentEntry.conf, path |-> jarpath]}
  /\ runtime_classpath' = WriteThrough(consolidated_classpath')
  /\ index' = index + 1
  /\ pc' = "entries"
  /\ UNCHANGED <<consolidated_is_runtime, context_targets, all_vts, vt_pos, entries, jarpath,
                 runs, start_classpath, written, removed, finished, failed>>

Next ==
  \/ Execute
  \/ NextVT
  \/ Finish
  \/ DirectoryEntry
  \/ OtherEntry
  \/ EndEntries
  \/ WriteJar
  \/ WriteError
  \/ Remove
  \/ Add

Spec == Init /\ [][Next]_vars

\* Jars left in a target's results directory by an earlier build.
PreexistingJars(target) == {JarPath(results_dir(target), 0)}

\* Manifests over the targets ts, of at most n entries in all, in which an
\* upstream entry may name a jar of the target's own results directory.
RECURSIVE ManifestsWithPreexisting(_, _)
ManifestsWithPreexisting(ts, n) ==
  IF ts = {} THEN {<<>>}
  ELSE LET t == CHOOSE x \in ts : TRUE
           es == [conf : Confs, path : InputPaths \cup PreexistingJars(t)]
       IN UNION {{(t :> s) @@ m : m \in ManifestsWithPreexisting(ts \ {t}, n - Len(s))} :
                 s \in {x \in SeqsUpTo(es, n) : NoDuplicates(x)}}

InitPreexisting ==
  /\ runtime_classpath \in ManifestsWithPreexisting(Targets, MaxEntries)
  /\ context_targets \in SeqsUpTo(Targets, MaxTargets)
  /\ consolidated_classpath = <<>>
  /\ consolidated_is_runtime = FALSE
  /\ pc = "idle"
  /\ all_vts = <<>>
  /\ vt_pos = 0
  /\ entries = <<>>
  /\ index = 0
  /\ jarpath = ""
  /\ runs = 0
  /\ start_classpath = runtime_classpath
  /\ written = {}
  /\ removed = {}
  /\ added = {}
  /\ finished = <<>>
  /\ failed = <<>>

\* The same task over manifests that may already name a generated jar path.
SpecPreexisting == InitPreexisting /\ [][Next]_vars

TypeOK ==
  /\ pc \in {"idle", "vts", "entries", "write", "remove", "add", "done", "error"}
  /\ runs \in 0..MaxRuns
  /\ consolidated_is_runtime \in BOOLEAN
  /\ vt_pos \in 0..Len(all_vts)
  /\ index \in 0..Len(entries)

(* ---------------------------- properties ------------------------------- *)

IsDirectoryEntry(e) == e.path \in LooseDirs

DirectoryPositions(es) == {i \in 1..Len(es) : IsDirectoryEntry(es[i])}

\* The archive entry that stands for position i (1-based here, 0-based in the
\* file name) of target t's sequence at the start of the run.
ArchiveFor(t, i) ==
  [conf |-> start_classpath[t][i].conf,
   path |-> "/out/" \o t \o "/output-" \o ToString(i - 1) \o ".jar"]

\* C1 (completeness): after a successful run, no target of the target set that
\* had a directory entry at the start of the run has a directory entry left,
\* whatever verdicts the invalidation gave.
C1_Completeness ==
  pc = "done" =>
    \A k \in 1..Len(context_targets) :
      LET t == context_targets[k] IN
        DirectoryPositions(start_classpath[t]) # {} => DirectoryPositions(Classpath[t]) = {}

\* A first run completed over a valid and an invalid candidate, one of them
\* with its directory behind a jar.
C1_Witness ==
  /\ pc = "done"
  /\ runs = 1
  /\ \E i, j \in 1..Len(all_vts) : all_vts[i].valid /\ ~all_vts[j].valid
  /\ \E t \in Range(context_targets) :
       /\ Len(start_classpath[t]) >= 2
       /\ ~IsDirectoryEntry(start_classpath[t][1])
       /\ IsDirectoryEntry(start_classpath[t][2])

\* C2 (idempotence): a second execute on the manifest of a first successful
\* run finds no candidate, writes no jar, issues no remove and no add, and
\* leaves the manifest as the first run left it.
C2_Idempotence ==
  (runs = 2 /\ pc = "done") =>
    /\ all_vts = <<>>
    /\ written = {}
    /\ removed = {}
    /\ added = {}
    /\ Classpath = start_classpath

\* The second run completed after a first run that did replace directories.
C2_Witness ==
  /\ runs = 2
  /\ pc = "done"
  /\ Classpath # runtime_classpath
  /\ \E t \in Range(context_targets) : DirectoryPositions(runtime_classpath[t]) # {}

\* C3 (skip on valid): no jar is ever written for a target whose vt is valid,
\* and after the run every directory entry of such a target has been replaced
\* in the manifest by its archive path.
C3_SkipOnValid ==
  \A k \in 1..Len(all_vts) :
    LET vt == all_vts[k] IN
      vt.valid =>
        /\ \A w \in written : w.target # vt.target
        /\ pc = "done" =>
             /\ DirectoryPositions(Classpath[vt.target]) = {}
             /\ \A i \in DirectoryPositions(start_classpath[vt.target]) :
                  ArchiveFor(vt.target, i) \in Range(Classpath[vt.target])

\* A run completed in which a valid target had two directories replaced while
\* another, invalid, target had its jar written.
C3_Witness ==
  /\ pc = "done"
  /\ written # {}
  /\ \E k \in 1..Len(all_vts) :
       /\ all_vts[k].valid
       /\ Cardinality(DirectoryPositions(start_classpath[all_vts[k].target])) = 2
       /\ Cardinality({a \in added : a.target = all_vts[k].target}) = 2

\* C4 (in-place replacement), as claimed: after a run the entry at position i
\* of every processed target is the archive for position i when the old entry
\* was a directory and the old entry itself otherwise.
C4_InPlaceReplacement ==
  pc = "done" =>
    \A k \in 1..Len(all_vts) :
      LET t == all_vts[k].target IN
        /\ Len(Classpath[t]) = Len(start_classpath[t])
        /\ \A i \in 1..Len(start_classpath[t]) :
             Classpath[t][i] = IF IsDirectoryEntry(start_classpath[t][i])
                               THEN ArchiveFor(t, i)
                               ELSE start_classpath[t][i]

\* C5 (index stability): the path given to the directory at 0-based position i
\* of target X's sequence is /out/X/output-<i>.jar, i counting jars as well as
\* directories, and two positions of one target never get the same path.
C5_IndexStability ==
  /\ \A a \in added :
       /\ a.index + 1 \in DirectoryPositions(start_classpath[a.target])
       /\ [conf |-> a.conf, path |-> a.path] = ArchiveFor(a.target, a.index + 1)
  /\ \A w \in written :
       /\ w.index + 1 \in DirectoryPositions(start_classpath[w.target])
       /\ w.dest = ArchiveFor(w.target, w.index + 1).path
  /\ \A a, b \in added \cup written :
       (a.target = b.target /\ a.index # b.index) =>
         (IF "dest" \in DOMAIN a THEN a.dest ELSE a.path) #
         (IF "dest" \in DOMAIN b THEN b.dest ELSE b.path)

\* A target whose sequence is jar, directory, directory with two different
\* confs had both directories replaced, at indexes 1 and 2, by written jars.
C5_Witness ==
  /\ pc = "done"
  /\ \E a, b \in added :
       /\ a.target = b.target
       /\ a.conf # b.conf
       /\ a.index = 1
       /\ b.index = 2
       /\ ~IsDirectoryEntry(start_classpath[a.target][1])
       /\ \E w \in written : w.target = a.target /\ w.index = 2

\* C6 (non-directory passthrough): a jar entry is never removed, never
\* re-added, never handed to the jar writer, and stays in its target's
\* sequence, whatever the vt's verdict.
C6_NonDirectoryPassthrough ==
  /\ \A r \in removed : r.path \in LooseDirs
  /\ \A w \in written : w.source \in LooseDirs
  /\ \A a \in added :
       \A i \in 1..Len(start_classpath[a.target]) :
         ~IsDirectoryEntry(start_classpath[a.target][i]) =>
           start_classpath[a.target][i] # [conf |-> a.conf, path |-> a.path]
  /\ consolidated_classpath # <<>> =>
       \A t \in Targets :
         SelectSeq(Classpath[t], LAMBDA e : ~IsDirectoryEntry(e) /\ e \in Range(start_classpath[t]))
           = SelectSeq(start_classpath[t], LAMBDA e : ~IsDirectoryEntry(e))

\* An invalid target holding a jar and a directory was processed to the end:
\* its directory was written and replaced.
C6_Witness ==
  /\ pc = "done"
  /\ \E k \in 1..Len(all_vts) :
       LET t == all_vts[k].target IN
         /\ ~all_vts[k].valid
         /\ \E i \in 1..Len(start_classpath[t]) : ~IsDirectoryEntry(start_classpath[t][i])
         /\ \E w \in written : w.target = t
         /\ \E r \in removed : r.target = t

\* The targets of the vts the outer loop has not reached and that no earlier vt
\* names.
NotStarted ==
  {all_vts[k].target : k \in vt_pos + 1..Len(all_vts)} \ {all_vts[k].target : k \in 1..vt_pos}

\* C7 (fail-fast manifest safety): once a jar write has failed, every target
\* whose processing completed before the failure has the entries it had when
\* it completed, and every candidate not yet started has its original entries.
C7_FailFastManifestSafety ==
  failed # <<>> =>
    /\ \A k \in 1..Len(finished) : Classpath[finished[k].target] = finished[k].entries
    /\ \A t \in NotStarted : Classpath[t] = start_classpath[t]

\* The write failed for the second directory of the second of three distinct
\* candidates: the first is consolidated, the third not started.
C7_Witness ==
  /\ pc = "error"
  /\ Len(all_vts) = 3
  /\ vt_pos = 2
  /\ Len(finished) = 1
  /\ finished[1].entries # start_classpath[finished[1].target]
  /\ finished[1].target # failed[1].target
  /\ NotStarted # {}

\* C8 (writer failure is fatal): when a jar write fails the run is in the
\* error state, the directory entry whose write failed is still in the
\* manifest and its jar path was not added, and from then on nothing is
\* written, removed or added.
C8_WriterFailureFatal ==
  /\ [](failed # <<>> =>
          /\ pc = "error"
          /\ [conf |-> failed[1].conf, path |-> failed[1].path]
               \in Range(Classpath[failed[1].target])
          /\ [conf |-> failed[1].conf, path |-> failed[1].dest]
               \notin Range(Classpath[failed[1].target])
          /\ \A a \in added : ~(a.target = failed[1].target /\ a.index = failed[1].index))
  /\ [][failed # <<>> => UNCHANGED <<consolidated_classpath, written, removed, added>>]_vars

\* A write failed after an earlier directory had been written and replaced.
C8_Witness ==
  /\ pc = "error"
  /\ failed # <<>>
  /\ written # {}
  /\ added # {}

\* C9 (per-target all-or-nothing), as claimed: when the run has stopped on an
\* error, every target has either no directory entry left or exactly the
\* entries it started with.
C9_AllOrNothing ==
  pc = "error" =>
    \A t \in Targets :
      \/ Classpath[t] = start_classpath[t]
      \/ DirectoryPositions(Classpath[t]) = {}

\* C10 (no transient missing entry), as claimed: in every state of a run each
\* directory slot of the starting sequence is represented in the manifest by
\* exactly one of its directory tuple and its archive tuple.
C10_NoTransientMissing ==
  consolidated_classpath # <<>> =>
    \A t \in Targets :
      \A i \in DirectoryPositions(start_classpath[t]) :
        (start_classpath[t][i] \in Range(Classpath[t]))
          # (ArchiveFor(t, i) \in Range(Classpath[t]))

\* C11 (the consolidation works on a clone): no step of a run, successful or
\* failed, changes the entries of the 'runtime_classpath' product.
C11_RuntimeClasspathUntouched ==
  [][runtime_classpath' = runtime_classpath]_vars

\* A run failed after it had already replaced a directory in the consolidated
\* product, which now differs from the runtime product.
C11_Witness ==
  /\ pc = "error"
  /\ removed # {}
  /\ added # {}
  /\ Classpath # runtime_classpath
  /\ \E t \in Targets : DirectoryPositions(runtime_classpath[t]) # {}

\* C12 (candidate classification): the candidates handed to the invalidation
\* are the targets of the input list that have a directory entry at any
\* position under any conf, in input order and once per occurrence; a target
\* with no entry or with jars only is left out; the manifest is as it was.
C12_CandidateClassification ==
  (pc = "vts" /\ vt_pos = 0) =>
    /\ [k \in 1..Len(all_vts) |-> all_vts[k].target]
         = SelectSeq(context_targets,
                     LAMBDA t : \E i \in 1..Len(start_classpath[t]) :
                                  start_classpath[t][i].path \in LooseDirs)
    /\ Classpath = start_classpath
    /\ runs = 1 => Classpath = runtime_classpath

\* The input list names a candidate twice around a target that has a jar only;
\* the candidate's only directory is its second entry, under conf 'shaded'.
C12_Witness ==
  /\ pc = "vts"
  /\ vt_pos = 0
  /\ runs = 1
  /\ Len(context_targets) = 3
  /\ context_targets[1] = context_targets[3]
  /\ context_targets[2] # context_targets[1]
  /\ Len(start_classpath[context_targets[2]]) = 1
  /\ Len(all_vts) = 2
  /\ LET es == start_classpath[context_targets[1]] IN
       /\ Len(es) = 2
       /\ ~IsDirectoryEntry(es[1])
       /\ IsDirectoryEntry(es[2])
       /\ es[2].conf = "shaded"
  /\ \E t \in Targets : start_classpath[t] = <<>>

\* C13 (write before publish): in every state, a jar path that the run has
\* added for a target with an invalid vt has already been written in this
\* run; between the write and the add of position i the jar of position i is
\* written; no entry that the run brought into an invalid target's sequence
\* names a jar that was not written.
C13_WriteBeforePublish ==
  /\ \A k \in 1..Len(all_vts) :
       LET vt == all_vts[k] IN
         ~vt.valid =>
           /\ \A a \in added :
                a.target = vt.target =>
                  \E w \in written :
                    w.target = a.target /\ w.index = a.index /\ w.dest = a.path
           /\ \A e \in Range(Classpath[vt.target]) :
                e \notin Range(start_classpath[vt.target]) =>
                  \E w \in written : w.target = vt.target /\ w.dest = e.path
  /\ (pc \in {"remove", "add"} /\ ~CurrentVT.valid) =>
       \E w \in written :
         w.target = CurrentVT.target /\ w.index = index /\ w.dest = jarpath

\* An invalid target is between the remove and the add of its second
\* directory, the first one already written and published.
C13_Witness ==
  /\ pc = "add"
  /\ ~CurrentVT.valid
  /\ \E a \in added : a.target = CurrentVT.target /\ a.index < index
  /\ Cardinality({w \in written : w.target = CurrentVT.target}) = 2

Count(es, e) == Cardinality({i \in 1..Len(es) : es[i] = e})

\* C14 (entry count and confs are preserved): after a successful run every
\* target's sequence has the length it had before and as many entries of each
\* conf; every replaced directory contributes exactly one jar entry of its
\* conf and no other entry is lost or merged, also when the sequence already
\* held a tuple equal to the generated one.
C14_CountAndConfsPreserved ==
  pc = "done" =>
    \A t \in Targets :
      LET old == start_classpath[t]
          new == Classpath[t]
          replaced == IF t \in Range(context_targets) THEN DirectoryPositions(old) ELSE {}
      IN /\ Len(new) = Len(old)
         /\ \A c \in Confs :
              Cardinality({i \in 1..Len(new) : new[i].conf = c})
                = Cardinality({i \in 1..Len(old) : old[i].conf = c})
         /\ \A e \in Range(new) \cup Range(old) :
              Count(new, e)
                = Cardinality({i \in 1..Len(old) : old[i] = e /\ i \notin replaced})
                  + Cardinality({i \in replaced : ArchiveFor(t, i) = e})

\* A run completed for a target whose first entry was a directory and whose
\* sequence already held the tuple (same conf, output-0.jar).
C14_Witness ==
  /\ pc = "done"
  /\ runs = 1
  /\ \E a \in added :
       /\ a.index = 0
       /\ [conf |-> a.conf, path |-> a.path] \in Range(start_classpath[a.target])
       /\ Count(Classpath[a.target], [conf |-> a.conf, path |-> a.path]) = 2

\* C15 (per-target scope of mutation): a step changes the sequence of a target
\* only while that target is the one being processed, and that target is a
\* candidate of the given target set; every vt the invalidation returns is
\* for a candidate, so no verdict is asked for any other target.
C15_PerTargetScope ==
  /\ [](\A k \in 1..Len(all_vts) :
          /\ all_vts[k].target \in Range(context_targets)
          /\ DirectoryPositions(start_classpath[all_vts[k].target]) # {})
  /\ [][IF consolidated_classpath = <<>>
        THEN consolidated_classpath' # <<>> => consolidated_classpath'[1] = runtime_classpath
        ELSE \A t \in Targets :
               consolidated_classpath'[1][t] # Classpath[t] =>
                 /\ pc \in {"remove", "add"}
                 /\ t = CurrentVT.target]_vars

\* A directory of the current target has been replaced while a target outside
\* the target set still has its directory and a target of the set that is not
\* a candidate still has its jar.
C15_Witness ==
  /\ pc = "entries"
  /\ \E a \in added : a.target = CurrentVT.target
  /\ \E t \in Targets \ Range(context_targets) :
       DirectoryPositions(Classpath[t]) # {}
  /\ \E t \in Range(context_targets) :
       /\ Classpath[t] # <<>>
       /\ DirectoryPositions(Classpath[t]) = {}
       /\ \A k \in 1..Len(all_vts) : all_vts[k].target # t

\* C16 (no remove of an absent tuple): over manifests without a duplicate
\* (conf, path) pair in a target's sequence, every remove of a run names a
\* tuple that is in the target's sequence when the remove is issued, also when
\* the target list names a target more than once.
C16_NoRemoveOfAbsentTuple ==
  (\A t \in Targets : NoDuplicates(runtime_classpath[t])) =>
    \A r \in removed : r.present

\* A run completed over a target list that names the same candidate twice and
\* removed two directory tuples of it.
C16_Witness ==
  /\ pc = "done"
  /\ Len(all_vts) >= 2
  /\ all_vts[1].target = all_vts[2].target
  /\ Cardinality({r \in removed : r.target = all_vts[1].target}) = 2
  /\ \A t \in Targets : NoDuplicates(runtime_classpath[t])

====
